---- MODULE Spec2Model ----
(***************************************************************************)
(* Model of wishbone-tool/src/config.rs: the numeric literal parser        *)
(* (get_base, parse_u16, parse_u32) and Config::parse.                     *)
(*                                                                         *)
(* A text (&str) is a sequence of one-character strings.  An Option is a   *)
(* sequence of length 0 (None) or 1 (Some).  An unsigned integer is a pair *)
(* <<hi, lo>> of 16-bit limbs, value hi * 65536 + lo, so that the 32-bit   *)
(* width of u32 is kept exactly.                                           *)
(***************************************************************************)
EXTENDS Integers, Sequences, FiniteSets, TLC

VARIABLES matches, result, looked, text, gb, r16, r32

vars == <<matches, result, looked, text, gb, r16, r32>>

None == <<>>
Some(v) == <<v>>
Ok(v) == [ok |-> TRUE, val |-> v]
Err(e) == [ok |-> FALSE, err |-> e]

(* ---------------------------- bounds ----------------------------------- *)
MaxLen == 4

(* ------------------------- integer widths ------------------------------ *)
LimbBase == 65536

\* u16::MAX and u32::MAX as limb pairs
MaxOf(width) == IF width = 16 THEN <<0, LimbBase - 1>> ELSE <<LimbBase - 1, LimbBase - 1>>

\* a limb pair exceeds the maximum of the width
Exceeds(v, width) == v[1] > MaxOf(width)[1]

(* ------------------------- char::to_digit ------------------------------ *)
LowerChars == <<"0","1","2","3","4","5","6","7","8","9","a","b","c","d","e","f","g","h",
  "i","j","k","l","m","n","o","p","q","r","s","t","u","v","w","x","y","z">>
UpperChars == <<"0","1","2","3","4","5","6","7","8","9","A","B","C","D","E","F","G","H",
  "I","J","K","L","M","N","O","P","Q","R","S","T","U","V","W","X","Y","Z">>

\* variant: the radix itself is taken for a digit (d <= radix)
to_digit_inclusive(c, radix) ==
  LET idx == {i \in 1..36 : LowerChars[i] = c \/ UpperChars[i] = c}
  IN IF idx = {} THEN None
     ELSE LET d == (CHOOSE i \in idx : TRUE) - 1
          IN IF d <= radix THEN Some(d) ELSE None

to_digit(c, radix) ==
  LET idx == {i \in 1..36 : LowerChars[i] = c \/ UpperChars[i] = c}
  IN IF idx = {} THEN None
     ELSE LET d == (CHOOSE i \in idx : TRUE) - 1
          IN IF d < radix THEN Some(d) ELSE None

(* ---------------- uN::from_str_radix (checked accumulate) -------------- *)
\* acc * radix + d on limbs; the high limb may leave the 16-bit range
MulAdd(acc, radix, d) ==
  LET lo == acc[2] * radix + d
  IN <<acc[1] * radix + (lo \div LimbBase), lo % LimbBase>>

RECURSIVE accumulate(_, _, _, _, _)
accumulate(digits, i, radix, width, acc) ==
  IF i > Len(digits) THEN Ok(acc)
  ELSE LET d == to_digit(digits[i], radix)
       IN IF d = None THEN Err("InvalidDigit")
          ELSE LET n == MulAdd(acc, radix, d[1])
               IN IF Exceeds(n, width) THEN Err("PosOverflow")
                  ELSE accumulate(digits, i + 1, radix, width, n)

from_str_radix(src, radix, width) ==
  IF src = <<>> THEN Err("Empty")
  ELSE IF src = <<"+">> \/ src = <<"-">> THEN Err("InvalidDigit")
  ELSE IF src[1] = "+" THEN accumulate(Tail(src), 1, radix, width, <<0, 0>>)
  ELSE accumulate(src, 1, radix, width, <<0, 0>>)

(* ------------------------------ get_base ------------------------------- *)
starts_with(value, pat) ==
  Len(value) >= Len(pat) /\ SubSeq(value, 1, Len(pat)) = pat

RECURSIVE trim_start_matches(_, _)
trim_start_matches(value, pat) ==
  IF starts_with(value, pat)
  THEN trim_start_matches(SubSeq(value, Len(pat) + 1, Len(value)), pat)
  ELSE value

\* variant: the `value != "0"` exception is missing
get_base_zero_octal(value) ==
  IF starts_with(value, <<"0", "x">>) THEN <<trim_start_matches(value, <<"0", "x">>), 16>>
  ELSE IF starts_with(value, <<"0", "X">>) THEN <<trim_start_matches(value, <<"0", "X">>), 16>>
  ELSE IF starts_with(value, <<"0", "b">>) THEN <<trim_start_matches(value, <<"0", "b">>), 2>>
  ELSE IF starts_with(value, <<"0", "B">>) THEN <<trim_start_matches(value, <<"0", "B">>), 2>>
  ELSE IF starts_with(value, <<"0">>) THEN <<trim_start_matches(value, <<"0">>), 8>>
  ELSE <<value, 10>>

get_base(value) ==
  IF starts_with(value, <<"0", "x">>) THEN <<trim_start_matches(value, <<"0", "x">>), 16>>
  ELSE IF starts_with(value, <<"0", "X">>) THEN <<trim_start_matches(value, <<"0", "X">>), 16>>
  ELSE IF starts_with(value, <<"0", "b">>) THEN <<trim_start_matches(value, <<"0", "b">>), 2>>
  ELSE IF starts_with(value, <<"0", "B">>) THEN <<trim_start_matches(value, <<"0", "B">>), 2>>
  ELSE IF starts_with(value, <<"0">>) /\ value # <<"0">> THEN <<trim_start_matches(value, <<"0">>), 8>>
  ELSE <<value, 10>>

(* ------------------------ parse_u16 / parse_u32 ------------------------ *)
NumberParseError(s, e) == [kind |-> "NumberParseError", text |-> s, cause |-> e]

\* variant: parse_u16 parses at the 32-bit width
parse_u16_wide(value) ==
  LET b == get_base(value)
      r == from_str_radix(b[1], b[2], 32)
  IN IF r.ok THEN Ok(r.val) ELSE Err(NumberParseError(b[1], r.err))

parse_u16(value) ==
  LET b == get_base(value)
      r == from_str_radix(b[1], b[2], 16)
  IN IF r.ok THEN Ok(r.val) ELSE Err(NumberParseError(b[1], r.err))

parse_u32(value) ==
  LET b == get_base(value)
      r == from_str_radix(b[1], b[2], 32)
  IN IF r.ok THEN Ok(r.val) ELSE Err(NumberParseError(b[1], r.err))

(* ----------------------- ServerKind::from_string ----------------------- *)
\* One text per recognised operation name; anything else is unknown.
T_gdb == <<"g", "d", "b">>
T_wishbone == <<"w", "i", "s", "h", "b", "o", "n", "e">>
T_bogus == <<"b", "o", "g", "u", "s">>

UnknownServerKind(s) == [kind |-> "UnknownServerKind", text |-> s]

ServerKind_from_string(item) ==
  IF item = None THEN Ok("None")
  ELSE IF item[1] = T_gdb THEN Ok("GDB")
  ELSE IF item[1] = T_wishbone THEN Ok("Wishbone")
  ELSE Err(UnknownServerKind(item[1]))

(* ---------------------------- Config::parse ---------------------------- *)
\* variant: server-kind is resolved after the random-test flags
Order_kind_last == <<"vid", "pid", "serial", "baud", "address", "value", "port", "bind-addr",
  "random-loops", "random-address", "server-kind">>

Order == <<"vid", "pid", "serial", "baud", "address", "value", "port", "bind-addr",
  "server-kind", "random-loops", "random-address">>

Flags == {Order[i] : i \in 1..Len(Order)}

value_of(m, name) == m[name]

DefaultBindPort == 3333
DefaultBindAddr == <<"1", "2", "7", ".", "0", ".", "0", ".", "1">>

\* `if let Some(x) = value_of(..) { Some(parse(x)?) } else { None }`
opt_u16(v) ==
  IF v # None
  THEN LET r == parse_u16(v[1]) IN IF r.ok THEN Ok(Some(r.val)) ELSE r
  ELSE Ok(None)

opt_u32(v) ==
  IF v # None
  THEN LET r == parse_u32(v[1]) IN IF r.ok THEN Ok(Some(r.val)) ELSE r
  ELSE Ok(None)

\* the value bound to a local by one `let`, or the error `?` returns
\* variant: the serial branch does not switch the bridge
let_serial_keeps_usb(v) ==
  IF v # None
  THEN [serial_port |-> Some(v[1])]
  ELSE [serial_port |-> None]

let_serial(v) ==
  IF v # None
  THEN [serial_port |-> Some(v[1]), bridge_kind |-> "UartBridge"]
  ELSE [serial_port |-> None]

\* variant: a malformed port falls back to the default
let_bind_port_defaulting(v) ==
  IF v # None
  THEN (IF parse_u32(v[1]).ok THEN parse_u32(v[1]) ELSE Ok(<<0, DefaultBindPort>>))
  ELSE Ok(<<0, DefaultBindPort>>)

let_bind_port(v) ==
  IF v # None
  THEN parse_u32(v[1])
  ELSE Ok(<<0, DefaultBindPort>>)

let_bind_addr(v) ==
  IF v # None THEN v[1] ELSE DefaultBindAddr

\* bindings made by the statement that looks up flag f, or its error
statement(f, v) ==
  LET bind(name, r) == IF r.ok THEN Ok(name :> r.val) ELSE r
  IN CASE f = "vid" -> bind("usb_vid", opt_u16(v))
       [] f = "pid" -> bind("usb_pid", opt_u16(v))
       [] f = "serial" -> Ok(let_serial(v))
       [] f = "baud" -> bind("serial_baud", opt_u32(v))
       [] f = "address" -> bind("memory_address", opt_u32(v))
       [] f = "value" -> bind("memory_value", opt_u32(v))
       [] f = "port" -> bind("bind_port", let_bind_port(v))
       [] f = "bind-addr" -> Ok("bind_addr" :> let_bind_addr(v))
       [] f = "server-kind" -> bind("server_kind", ServerKind_from_string(v))
       [] f = "random-loops" -> bind("random_loops", opt_u32(v))
       [] f = "random-address" -> bind("random_address", opt_u32(v))

\* variant: is_some() in place of is_none()
no_operation_is_some(memory_address, server_kind) ==
  memory_address # None /\ server_kind = "None"

\* variant: || in place of &&
no_operation_either(memory_address, server_kind) ==
  memory_address = None \/ server_kind = "None"

no_operation(memory_address, server_kind) ==
  memory_address = None /\ server_kind = "None"

finish(l) ==
  IF no_operation(l.memory_address, l.server_kind)
  THEN Err([kind |-> "NoOperationSpecified"])
  ELSE Ok([usb_pid |-> l.usb_pid, usb_vid |-> l.usb_vid,
           serial_port |-> l.serial_port, serial_baud |-> l.serial_baud,
           memory_address |-> l.memory_address, memory_value |-> l.memory_value,
           server_kind |-> l.server_kind, bridge_kind |-> l.bridge_kind,
           bind_port |-> l.bind_port, bind_addr |-> l.bind_addr,
           random_loops |-> l.random_loops, random_address |-> l.random_address])

\* statements run in source order; `seen` is the sequence of value_of calls
RECURSIVE run(_, _, _, _)
run(m, i, locals, seen) ==
  IF i > Len(Order) THEN [res |-> finish(locals), seen |-> seen]
  ELSE LET f == Order[i]
           r == statement(f, value_of(m, f))
       IN IF r.ok
          THEN run(m, i + 1, r.val @@ locals, Append(seen, f))
          ELSE [res |-> r, seen |-> Append(seen, f)]

parse(m) == run(m, 1, [bridge_kind |-> "UsbBridge"], <<>>)

(* ------------------------------ inputs --------------------------------- *)
T_0x1209 == <<"0", "x", "1", "2", "0", "9">>
T_0x10000 == <<"0", "x", "1", "0", "0", "0", "0">>
T_0xZZ == <<"0", "x", "Z", "Z">>
T_00 == <<"0", "0">>
T_010 == <<"0", "1", "0">>
T_0b12 == <<"0", "b", "1", "2">>
T_3333 == <<"3", "3", "3", "3">>
T_1234 == <<"1", "2", "3", "4">>
T_12a == <<"1", "2", "a">>
T_9999999999 == <<"9", "9", "9", "9", "9", "9", "9", "9", "9", "9">>
T_115200 == <<"1", "1", "5", "2", "0", "0">>
T_ttyUSB0 == <<"t", "t", "y", "U", "S", "B", "0">>
T_0_0_0_0 == <<"0", ".", "0", ".", "0", ".", "0">>
T_minus1 == <<"-", "1">>

FlagValues(f) ==
  CASE f = "vid" -> {None, Some(T_0x1209), Some(T_0x10000)}
    [] f = "pid" -> {None, Some(T_0xZZ)}
    [] f = "serial" -> {None, Some(T_ttyUSB0)}
    [] f = "baud" -> {None, Some(T_115200)}
    [] f = "address" -> {None, Some(T_0x10000), Some(T_00)}
    [] f = "value" -> {None, Some(T_0b12)}
    [] f = "port" -> {None, Some(T_1234), Some(T_3333), Some(T_12a)}
    [] f = "bind-addr" -> {None, Some(T_0_0_0_0)}
    [] f = "server-kind" -> {None, Some(T_gdb), Some(T_bogus)}
    [] f = "random-loops" -> {None, Some(T_010), Some(T_9999999999)}
    [] f = "random-address" -> {None, Some(T_minus1)}

ArgMatches ==
  {("vid" :> a1) @@ ("pid" :> a2) @@ ("serial" :> a3) @@ ("baud" :> a4)
     @@ ("address" :> a5) @@ ("value" :> a6) @@ ("port" :> a7) @@ ("bind-addr" :> a8)
     @@ ("server-kind" :> a9) @@ ("random-loops" :> a10) @@ ("random-address" :> a11) :
   a1 \in FlagValues("vid"), a2 \in FlagValues("pid"), a3 \in FlagValues("serial"),
   a4 \in FlagValues("baud"), a5 \in FlagValues("address"), a6 \in FlagValues("value"),
   a7 \in FlagValues("port"), a8 \in FlagValues("bind-addr"),
   a9 \in FlagValues("server-kind"), a10 \in FlagValues("random-loops"),
   a11 \in FlagValues("random-address")}

Alphabet == {"0", "1", "8", "b", "B", "x", "X", "+", "-"}

ShortTexts == UNION {[1..n -> Alphabet] : n \in 0..MaxLen}

Prefixes == {<<>>, <<"0", "x">>, <<"0", "X">>, <<"0", "b">>, <<"0", "B">>, <<"0">>,
  <<"0", "x", "0", "x">>, <<"0", "0", "0">>, <<"+">>, <<"0", "x", "+">>}

Ones(n) == [i \in 1..n |-> "1"]
OneZeros(n) == [i \in 1..(n + 1) |-> IF i = 1 THEN "1" ELSE "0"]

Bodies == {
  <<"1", "A">>, <<"1", "a">>, <<"Z", "Z">>, <<"9">>,
  <<"f", "f", "f", "f">>, <<"F", "F", "F", "F">>, <<"1", "0", "0", "0", "0">>,
  <<"F", "F", "F", "F", "F", "F", "F", "F">>, <<"1", "0", "0", "0", "0", "0", "0", "0", "0">>,
  <<"6", "5", "5", "3", "5">>, <<"6", "5", "5", "3", "6">>,
  <<"4", "2", "9", "4", "9", "6", "7", "2", "9", "5">>,
  <<"4", "2", "9", "4", "9", "6", "7", "2", "9", "6">>,
  <<"1", "7", "7", "7", "7", "7">>, <<"2", "0", "0", "0", "0", "0">>,
  <<"3", "7", "7", "7", "7", "7", "7", "7", "7", "7", "7">>,
  <<"4", "0", "0", "0", "0", "0", "0", "0", "0", "0", "0">>,
  Ones(16), OneZeros(16), Ones(32), OneZeros(32)}

LongTexts == {p \o b : p \in Prefixes, b \in Bodies}

Texts == ShortTexts \cup LongTexts

(* --------------------------- state machines ---------------------------- *)
\* Config::parse called once on the collected arguments
Init ==
  /\ matches \in ArgMatches
  /\ result = None
  /\ looked = <<>>
  /\ text = <<>>
  /\ gb = None
  /\ r16 = None
  /\ r32 = None

Parse ==
  /\ result = None
  /\ LET p == parse(matches)
     IN /\ result' = Some(p.res)
        /\ looked' = p.seen
  /\ UNCHANGED <<matches, text, gb, r16, r32>>

Next == Parse

Spec == Init /\ [][Next]_vars

\* the literal parser's three public functions applied to one text
InitNum ==
  /\ text \in Texts
  /\ gb = None
  /\ r16 = None
  /\ r32 = None
  /\ matches = <<>>
  /\ result = None
  /\ looked = <<>>

CallGetBase ==
  /\ gb = None
  /\ gb' = Some(get_base(text))
  /\ UNCHANGED <<matches, result, looked, text, r16, r32>>

CallParseU16 ==
  /\ r16 = None
  /\ r16' = Some(parse_u16(text))
  /\ UNCHANGED <<matches, result, looked, text, gb, r32>>

CallParseU32 ==
  /\ r32 = None
  /\ r32' = Some(parse_u32(text))
  /\ UNCHANGED <<matches, result, looked, text, gb, r16>>

NextNum == CallGetBase \/ CallParseU16 \/ CallParseU32

SpecNum == InitNum /\ [][NextNum]_vars

(* ====================== properties of Config::parse ==================== *)
NumericU16 == {"vid", "pid"}
NumericU32 == {"baud", "address", "value", "port", "random-loops", "random-address"}
RecognisedKinds == {T_gdb, T_wishbone}

\* the error a flag's own parser gives for the supplied text, if it is invalid
Malformed(f, v) ==
  /\ v # None
  /\ CASE f \in NumericU16 -> ~parse_u16(v[1]).ok
       [] f \in NumericU32 -> ~parse_u32(v[1]).ok
       [] f = "server-kind" -> v[1] \notin RecognisedKinds
       [] OTHER -> FALSE

ErrorOf(f, v) ==
  CASE f \in NumericU16 -> parse_u16(v[1])
    [] f \in NumericU32 -> parse_u32(v[1])
    [] OTHER -> Err(UnknownServerKind(v[1]))

AllWellFormed(m) == \A f \in DOMAIN m : ~Malformed(f, m[f])

NoOperationSpecified == Err([kind |-> "NoOperationSpecified"])

Returned == result # None
IsOk == Returned /\ result[1].ok
IsErr(k) == Returned /\ ~result[1].ok /\ result[1].err.kind = k

\* C1: Config::parse returns Ok(Config) only if memory_address is present or
\* server_kind is not None (equivalently: the address flag was supplied or the
\* server-kind flag resolved to a kind); when every supplied flag is
\* well-formed, address is absent and server-kind resolves to None, the
\* result is Err(NoOperationSpecified).
C1_OperationRequired ==
  Returned =>
    /\ IsOk => /\ result[1].val.memory_address # None \/ result[1].val.server_kind # "None"
               /\ matches["address"] # None \/ matches["server-kind"] # None
    /\ (AllWellFormed(matches) /\ matches["address"] = None /\ matches["server-kind"] = None)
         => result[1] = NoOperationSpecified

C1_Witness ==
  /\ Returned
  /\ result[1] = NoOperationSpecified
  /\ matches["address"] = None
  /\ matches["port"] # None
  /\ matches["value"] = None

\* C2: in every returned Config, bridge_kind is UartBridge iff the serial flag
\* was supplied, serial_port then holds the raw flag text, and otherwise
\* bridge_kind is UsbBridge; no other flag takes part.
C2_BridgeKindIffSerial ==
  IsOk =>
    /\ result[1].val.bridge_kind = "UartBridge" <=> matches["serial"] # None
    /\ result[1].val.bridge_kind = "UsbBridge" <=> matches["serial"] = None
    /\ result[1].val.serial_port = matches["serial"]

C2_Witness ==
  /\ IsOk
  /\ matches["serial"] # None
  /\ matches["baud"] = None
  /\ result[1].val.bridge_kind = "UartBridge"
  /\ result[1].val.serial_port = Some(T_ttyUSB0)

\* C7: the defaults bind_port = 3333 and bind_addr = "127.0.0.1" are what an
\* absent port / bind-addr flag yields, a present flag yields its own value; a
\* present but malformed port makes parse return NumberParseError, and a
\* malformed optional numeric flag never yields a Config (so never one with
\* the field None): in a returned Config a numeric field is None exactly when
\* its flag is absent.
C7_FlagField == [f \in (NumericU16 \cup NumericU32) \ {"port"} |->
  CASE f = "vid" -> "usb_vid"
    [] f = "pid" -> "usb_pid"
    [] f = "baud" -> "serial_baud"
    [] f = "address" -> "memory_address"
    [] f = "value" -> "memory_value"
    [] f = "random-loops" -> "random_loops"
    [] f = "random-address" -> "random_address"]

C7_DefaultsOnlyWhenAbsent ==
  Returned =>
    /\ IsOk =>
         /\ matches["port"] = None => result[1].val.bind_port = <<0, 3333>>
         /\ matches["port"] # None =>
              Ok(result[1].val.bind_port) = parse_u32(matches["port"][1])
         /\ matches["bind-addr"] = None => result[1].val.bind_addr = DefaultBindAddr
         /\ matches["bind-addr"] # None => result[1].val.bind_addr = matches["bind-addr"][1]
         /\ \A f \in DOMAIN C7_FlagField :
              result[1].val[C7_FlagField[f]] = None <=> matches[f] = None
    /\ Malformed("port", matches["port"]) => IsErr("NumberParseError")
    /\ \A f \in NumericU16 \cup NumericU32 : Malformed(f, matches[f]) => ~IsOk

C7_Witness ==
  /\ IsErr("NumberParseError")
  /\ Malformed("port", matches["port"])
  /\ \A f \in Flags \ {"port"} : ~Malformed(f, matches[f])
  /\ result[1].err.text = T_12a

\* C8 as stated: with serial present, every supplied flag well-formed and
\* neither address nor server-kind given, the caller still receives
\* bridge_kind = UART.
C8_UartDeliveredWithoutOperation ==
  (Returned /\ matches["serial"] # None /\ AllWellFormed(matches)
     /\ matches["address"] = None /\ matches["server-kind"] = None)
    => (IsOk /\ result[1].val.bridge_kind = "UartBridge")

\* C8 amended: with serial present and every supplied flag well-formed, the
\* returned Config has bridge_kind = UART when an operation (address or
\* server-kind) was requested; when none was requested parse returns
\* NoOperationSpecified and no Config, hence no bridge_kind, reaches the caller.
C8_UartOnlyWithOperation ==
  (Returned /\ matches["serial"] # None /\ AllWellFormed(matches)) =>
    IF matches["address"] = None /\ matches["server-kind"] = None
    THEN result[1] = NoOperationSpecified
    ELSE IsOk /\ result[1].val.bridge_kind = "UartBridge"

C8_Witness ==
  /\ Returned
  /\ matches["serial"] # None
  /\ AllWellFormed(matches)
  /\ matches["address"] = None
  /\ matches["server-kind"] = None
  /\ result[1] = NoOperationSpecified
  /\ "serial" \in {looked[i] : i \in 1..Len(looked)}

\* C10: parse is fail-fast in the order vid, pid, serial, baud, address,
\* value, port, bind-addr, server-kind, random-loops, random-address: the
\* returned error is that of the earliest invalid flag, no later flag is
\* looked up, and NoOperationSpecified only occurs when every supplied flag
\* is well-formed.
C10_Order == <<"vid", "pid", "serial", "baud", "address", "value", "port", "bind-addr",
  "server-kind", "random-loops", "random-address">>

C10_Bad(m) == {i \in 1..Len(C10_Order) : Malformed(C10_Order[i], m[C10_Order[i]])}

C10_FailFastInOrder ==
  Returned =>
    LET bad == C10_Bad(matches)
    IN /\ bad # {} =>
            LET i == CHOOSE j \in bad : \A k \in bad : j <= k
            IN /\ result[1] = ErrorOf(C10_Order[i], matches[C10_Order[i]])
               /\ looked = SubSeq(C10_Order, 1, i)
       /\ bad = {} => looked = C10_Order
       /\ result[1] = NoOperationSpecified => bad = {}

C10_Witness ==
  /\ Returned
  /\ Malformed("server-kind", matches["server-kind"])
  /\ Malformed("random-loops", matches["random-loops"])
  /\ \A i \in 1..8 : ~Malformed(C10_Order[i], matches[C10_Order[i]])
  /\ result[1] = Err(UnknownServerKind(T_bogus))
  /\ looked = SubSeq(C10_Order, 1, 9)

(* =================== properties of the literal parser ================== *)
\* the characters that are digits of each base, and their values
DigitValue ==
  ("0" :> 0) @@ ("1" :> 1) @@ ("2" :> 2) @@ ("3" :> 3) @@ ("4" :> 4) @@ ("5" :> 5)
  @@ ("6" :> 6) @@ ("7" :> 7) @@ ("8" :> 8) @@ ("9" :> 9)
  @@ ("a" :> 10) @@ ("b" :> 11) @@ ("c" :> 12) @@ ("d" :> 13) @@ ("e" :> 14) @@ ("f" :> 15)
  @@ ("A" :> 10) @@ ("B" :> 11) @@ ("C" :> 12) @@ ("D" :> 13) @@ ("E" :> 14) @@ ("F" :> 15)

IsDigitOf(c, base) == c \in DOMAIN DigitValue /\ DigitValue[c] < base

AllDigits(d, base) == \A i \in 1..Len(d) : IsDigitOf(d[i], base)

\* digit values of a digit string, leading zeros dropped (zero is <<>>)
Significant(d) ==
  LET nz == {i \in 1..Len(d) : d[i] # "0"}
  IN IF nz = {} THEN <<>>
     ELSE LET k == CHOOSE i \in nz : \A j \in nz : i <= j
          IN [i \in 1..(Len(d) - k + 1) |-> DigitValue[d[i + k - 1]]]

\* the digits of 2^width - 1 in each base
Rep(n, v) == [i \in 1..n |-> v]
MaxDigits(base, width) ==
  CASE base = 2 -> Rep(width, 1)
    [] base = 16 -> Rep(width \div 4, 15)
    [] base = 8 /\ width = 16 -> <<1>> \o Rep(5, 7)
    [] base = 8 /\ width = 32 -> <<3>> \o Rep(10, 7)
    [] base = 10 /\ width = 16 -> <<6, 5, 5, 3, 5>>
    [] base = 10 /\ width = 32 -> <<4, 2, 9, 4, 9, 6, 7, 2, 9, 5>>

\* a > b for numbers written as digit sequences without leading zeros
Greater(a, b) ==
  \/ Len(a) > Len(b)
  \/ /\ Len(a) = Len(b)
     /\ \E i \in 1..Len(a) : a[i] > b[i] /\ \A j \in 1..(i - 1) : a[j] = b[j]

Overflows(d, base, width) == Greater(Significant(d), MaxDigits(base, width))

\* the digits in `base` of a value held as 16-bit limbs
RECURSIVE DigitsOfValue(_, _)
DigitsOfValue(v, base) ==
  IF v = <<0, 0>> THEN <<>>
  ELSE LET t == (v[1] % base) * LimbBase + v[2]
       IN Append(DigitsOfValue(<<v[1] \div base, t \div base>>, base), t % base)

IsNumberParseError(r) == ~r.ok /\ r.err.kind = "NumberParseError"

\* C3 as stated: for the digit string d and base left by base detection,
\* parse_uN fails with NumberParseError iff d is empty, has a character that
\* is not a digit of the base ('+' and '-' included) or overflows the width;
\* otherwise it returns the value of d.
C3_Stated(r, width) ==
  LET d == get_base(text)[1]
      base == get_base(text)[2]
      bad == d = <<>> \/ ~AllDigits(d, base) \/ Overflows(d, base, width)
  IN /\ bad => IsNumberParseError(r)
     /\ ~bad => r.ok /\ DigitsOfValue(r.val, base) = Significant(d)

C3_SignsRejected ==
  /\ r16 # None => C3_Stated(r16[1], 16)
  /\ r32 # None => C3_Stated(r32[1], 32)

\* C3 amended: one leading '+' in front of at least one character is accepted
\* and ignored.  With body = d without that '+', parse_uN fails with
\* NumberParseError iff body is empty, has a character that is not a digit of
\* the base (a '-' or a further '+' included) or overflows the width;
\* otherwise it returns the value of body in the detected base.
ReadsAs(r, d, base, width) ==
  LET body == IF d # <<>> /\ d[1] = "+" THEN Tail(d) ELSE d
      bad == body = <<>> \/ ~AllDigits(body, base) \/ Overflows(body, base, width)
  IN /\ bad => IsNumberParseError(r)
     /\ ~bad => r.ok /\ DigitsOfValue(r.val, base) = Significant(body)

C3_Amended(r, width) == ReadsAs(r, get_base(text)[1], get_base(text)[2], width)

C3_ErrorsExceptLeadingPlus ==
  /\ r16 # None => C3_Amended(r16[1], 16)
  /\ r32 # None => C3_Amended(r32[1], 32)

C3_Witness ==
  /\ text = <<"0", "x", "+", "1", "A">>
  /\ r16 = Some(Ok(<<0, 26>>))
  /\ r32 = Some(Ok(<<0, 26>>))

\* C4: for a text beginning with 0x/0X (0b/0B) get_base returns base 16 (2)
\* and the text without exactly its first two characters, so "0x0x1A" keeps
\* the second "0x" in its digits and fails to parse.
C4_Prefix16 == {<<"0", "x">>, <<"0", "X">>}
C4_Prefix2 == {<<"0", "b">>, <<"0", "B">>}
C4_Rest(t) == SubSeq(t, 3, Len(t))

C4_StripsExactlyTwo ==
  /\ gb # None =>
       /\ (\E p \in C4_Prefix16 : starts_with(text, p)) => gb[1] = <<C4_Rest(text), 16>>
       /\ (\E p \in C4_Prefix2 : starts_with(text, p)) => gb[1] = <<C4_Rest(text), 2>>
  /\ (r32 # None /\ text = <<"0", "x", "0", "x", "1", "A">>) => ~r32[1].ok

\* C5: a text that starts with "0", is not "0" and has no 0x/0X/0b/0B prefix
\* is read in base 8 without any of its leading "0"s ("010" gives 8); "0" alone
\* is read in base 10 and gives 0; a text of two or more "0"s only fails with
\* NumberParseError on an empty digit string; every other text is read
\* unchanged in base 10.
C5_HasPrefix(t) == \E p \in C4_Prefix16 \cup C4_Prefix2 : starts_with(t, p)

C5_WithoutLeadingZeros(t) ==
  LET nz == {i \in 1..Len(t) : t[i] # "0"}
  IN IF nz = {} THEN <<>>
     ELSE SubSeq(t, CHOOSE i \in nz : \A j \in nz : i <= j, Len(t))

C5_LeadingZeroRule ==
  LET zero == text # <<>> /\ text[1] = "0"
      octal == zero /\ text # <<"0">> /\ ~C5_HasPrefix(text)
      allzero == Len(text) >= 2 /\ \A i \in 1..Len(text) : text[i] = "0"
  IN /\ gb # None =>
          /\ octal => gb[1] = <<C5_WithoutLeadingZeros(text), 8>>
          /\ text = <<"0">> => gb[1] = <<text, 10>>
          /\ (~octal /\ ~C5_HasPrefix(text)) => gb[1] = <<text, 10>>
     /\ r32 # None =>
          /\ octal => ReadsAs(r32[1], C5_WithoutLeadingZeros(text), 8, 32)
          /\ (~octal /\ ~C5_HasPrefix(text)) => ReadsAs(r32[1], text, 10, 32)
          /\ text = <<"0", "1", "0">> => r32[1] = Ok(<<0, 8>>)
          /\ text = <<"0">> => r32[1] = Ok(<<0, 0>>)
          /\ allzero => r32[1] = Err(NumberParseError(<<>>, "Empty"))

C5_Witness ==
  /\ text = <<"0", "0", "1", "0">>
  /\ gb = Some(<<(<<"1", "0">>), 8>>)
  /\ r32 = Some(Ok(<<0, 8>>))

\* C6: parse_u16 succeeds exactly when parse_u32 succeeds with a value of at
\* most 65535, and then both give the same value; for a value in
\* 65536..2^32-1 parse_u16 fails with NumberParseError while parse_u32 returns
\* it ("0x10000"); a value of 2^32 or more fails in both.
C6_WidthAgreement ==
  (r16 # None /\ r32 # None) =>
    LET d == get_base(text)[1]
        base == get_base(text)[2]
        body == IF d # <<>> /\ d[1] = "+" THEN Tail(d) ELSE d
    IN /\ r16[1].ok <=> (r32[1].ok /\ r32[1].val[1] = 0)
       /\ r16[1].ok => r16[1].val = r32[1].val
       /\ (r32[1].ok /\ r32[1].val[1] > 0) => IsNumberParseError(r16[1])
       /\ (AllDigits(body, base) /\ Overflows(body, base, 32)) =>
            IsNumberParseError(r16[1]) /\ IsNumberParseError(r32[1])
       /\ text = T_0x10000 => r32[1] = Ok(<<1, 0>>) /\ ~r16[1].ok

C6_Witness ==
  /\ text = T_0x10000
  /\ r16 # None /\ IsNumberParseError(r16[1])
  /\ r32 = Some(Ok(<<1, 0>>))

\* C9: the text carried by a NumberParseError is the original text of the
\* value as supplied, base prefix and leading zeros included.
C9_ErrorCarriesOriginalText ==
  /\ (r16 # None /\ IsNumberParseError(r16[1])) => r16[1].err.text = text
  /\ (r32 # None /\ IsNumberParseError(r32[1])) => r32[1].err.text = text

====
